---- MODULE Spec2Model ----
(***************************************************************************)
(* The question store of InterviewPrep (services/storageService.ts) and    *)
(* the UI handlers of App.tsx that drive it.                               *)
(*                                                                         *)
(* localStorage is a map from keys to stored strings.  A stored string is  *)
(* modelled by what JSON.parse makes of it:                                *)
(*   kind "absent"  - getItem returns null                                 *)
(*   kind "empty"   - the empty string (falsy, and JSON.parse throws)      *)
(*   kind "garbage" - a non-empty string that JSON.parse rejects           *)
(*   kind "object"  - JSON text of a value that is not an array            *)
(*   kind "array"   - JSON text of an array; val holds its elements        *)
(* A value in memory is [isArray, items].  A Question keeps the fields the *)
(* store's code reads (id, text, category, createdAt) and updatedAt; text  *)
(* stands for the rest of the payload, which the store copies verbatim.    *)
(* A question may carry companyTag as well; one that does not has none.    *)
(*                                                                         *)
(* Of the React state of App the module keeps what the list view reads:    *)
(* questions, the category, period and search filters, and the list that   *)
(* useMemo holds for display.                                              *)
(***************************************************************************)
EXTENDS Integers, Sequences, FiniteSets, TLC

VARIABLES
    ls,         \* localStorage: key -> stored string
    now,        \* what Date.now() answered last; it never runs backwards
    uuidCount,  \* how many ids crypto.randomUUID() has handed out
    last,       \* the handler that ran last, its arguments and its outcome
    ui,         \* React state of App: questions, the three filters, and the
                \* list useMemo holds for display
    app,        \* React state of App beside it: the view, the form, the chat
    pending,    \* calls awaited by a handler and not yet settled
    mirror,     \* directoryHandle and data/interview_questions.json
    tabs        \* sessions sharing localStorage: the questions each one holds

vars == <<ls, now, uuidCount, last, ui, app, pending, mirror, tabs>>

\* what the handlers of the store and of the list leave alone
others == <<app, pending, mirror, tabs>>

(***************************************************************************)
(* Bounds                                                                  *)
(***************************************************************************)
MaxTime == 2      \* Date.now() answers 1..MaxTime
MaxUuid == 1      \* ids handed out by crypto.randomUUID()
MaxBatch == 2     \* records in an import file
MaxCategories == 10   \* labels in the category list
MaxPending == 2   \* calls awaited at one time
MaxChat == 4      \* entries of chatHistory

(***************************************************************************)
(* Program constants                                                       *)
(***************************************************************************)
STORAGE_KEY == "interview_prep_questions_v1"
LEGACY_KEYS == <<"interview_questions", "interview_prep_questions", "interview_app_data">>
CATEGORIES_KEY == "interview_prep_categories_v1"
DEFAULT_CATEGORIES ==
    <<"Algorithm", "Reinforcement Learning", "SFT", "Machine Learning", "NLP",
      "Multimodal", "Software Engineering", "Behavioral", "Other">>

Keys == {STORAGE_KEY, CATEGORIES_KEY} \cup {LEGACY_KEYS[i] : i \in 1..Len(LEGACY_KEYS)}

(***************************************************************************)
(* Values                                                                  *)
(***************************************************************************)
Question(id, text, category, createdAt, updatedAt) ==
    [id |-> id, text |-> text, category |-> category,
     createdAt |-> createdAt, updatedAt |-> updatedAt]

NoQuestion == Question("", "", "", 0, 0)    \* null where a Question is expected

Arr(items) == [isArray |-> TRUE, items |-> items]
NotArr == [isArray |-> FALSE, items |-> <<>>]

Absent == [kind |-> "absent", val |-> <<>>]
EmptyString == [kind |-> "empty", val |-> <<>>]
Garbage == [kind |-> "garbage", val |-> <<>>]
ObjectText == [kind |-> "object", val |-> <<>>]

\* if (s): null and "" are falsy
Truthy(s) == s.kind \notin {"absent", "empty"}

\* JSON.stringify(v)
JSONstringify(v) ==
    IF v.isArray THEN [kind |-> "array", val |-> v.items] ELSE ObjectText

\* JSON.parse(s) throws a SyntaxError
JSONparseThrows(s) == s.kind \in {"empty", "garbage"}

\* JSON.parse(s), where it does not throw
JSONparse(s) == IF s.kind = "array" THEN Arr(s.val) ELSE NotArr

Range(s) == {s[i] : i \in 1..Len(s)}

(***************************************************************************)
(* services/storageService.ts                                              *)
(***************************************************************************)
RECURSIVE LegacyScan_NoPersist(_, _)
LegacyScan_NoPersist(store, i) ==
    IF i > Len(LEGACY_KEYS) THEN [ret |-> Arr(<<>>), ls |-> store]
    ELSE LET legacyData == store[LEGACY_KEYS[i]] IN
         IF Truthy(legacyData) /\ ~JSONparseThrows(legacyData)
               /\ JSONparse(legacyData).isArray /\ Len(JSONparse(legacyData).items) > 0
            THEN [ret |-> JSONparse(legacyData), ls |-> store]
            ELSE LegacyScan_NoPersist(store, i + 1)

RECURSIVE LegacyScan(_, _)
\* the for loop over LEGACY_KEYS, from the i-th key on
LegacyScan(store, i) ==
    IF i > Len(LEGACY_KEYS) THEN [ret |-> Arr(<<>>), ls |-> store]
    ELSE LET legacyData == store[LEGACY_KEYS[i]] IN
         IF Truthy(legacyData) /\ ~JSONparseThrows(legacyData)
            THEN LET parsed == JSONparse(legacyData) IN
                 IF parsed.isArray /\ Len(parsed.items) > 0
                    THEN [ret |-> parsed,
                          ls |-> [store EXCEPT ![STORAGE_KEY] = JSONstringify(parsed)]]
                    ELSE LegacyScan(store, i + 1)
            ELSE LegacyScan(store, i + 1)

\* getQuestions(): the value returned and localStorage afterwards
getQuestions(store) ==
    LET stored == store[STORAGE_KEY] IN
    IF Truthy(stored)
       THEN IF JSONparseThrows(stored)
               THEN [ret |-> Arr(<<>>), ls |-> store]
               ELSE [ret |-> JSONparse(stored), ls |-> store]
       ELSE LegacyScan(store, 1)

\* questions.findIndex(q => q.id === id): 1-based, 0 when there is none
findIndex(items, id) ==
    IF \E i \in 1..Len(items) : items[i].id = id
       THEN CHOOSE i \in 1..Len(items) :
                /\ items[i].id = id
                /\ \A j \in 1..(i - 1) : items[j].id # id
       ELSE 0

saveQuestion_AlwaysUnshift(store, question) ==
    LET g == getQuestions(store) IN
    IF ~g.ret.isArray THEN [ls |-> g.ls, err |-> TRUE]
    ELSE [ls |-> [g.ls EXCEPT ![STORAGE_KEY] =
                     JSONstringify(Arr(<<question>> \o g.ret.items))],
          err |-> FALSE]

saveQuestion_IgnoresExisting(store, question) ==
    LET g == getQuestions(store) IN
    IF ~g.ret.isArray THEN [ls |-> g.ls, err |-> TRUE]
    ELSE LET updated == IF findIndex(g.ret.items, question.id) >= 1
                           THEN g.ret.items
                           ELSE <<question>> \o g.ret.items
         IN  [ls |-> [g.ls EXCEPT ![STORAGE_KEY] = JSONstringify(Arr(updated))],
              err |-> FALSE]

saveQuestion_Push(store, question) ==
    LET g == getQuestions(store) IN
    IF ~g.ret.isArray THEN [ls |-> g.ls, err |-> TRUE]
    ELSE LET existingIndex == findIndex(g.ret.items, question.id)
             updated == IF existingIndex >= 1
                           THEN [g.ret.items EXCEPT ![existingIndex] = question]
                           ELSE Append(g.ret.items, question)
         IN  [ls |-> [g.ls EXCEPT ![STORAGE_KEY] = JSONstringify(Arr(updated))],
              err |-> FALSE]

\* saveQuestion(question); err: the call threw
saveQuestion(store, question) ==
    LET g == getQuestions(store)
        questions == g.ret
    IN  IF ~questions.isArray THEN [ls |-> g.ls, err |-> TRUE]
        ELSE LET existingIndex == findIndex(questions.items, question.id)
                 updated == IF existingIndex >= 1
                               THEN [questions.items EXCEPT ![existingIndex] = question]
                               ELSE <<question>> \o questions.items
             IN  [ls |-> [g.ls EXCEPT ![STORAGE_KEY] = JSONstringify(Arr(updated))],
                  err |-> FALSE]

deleteQuestion_RemovesEmptyKey(store, id) ==
    LET g == getQuestions(store) IN
    IF ~g.ret.isArray THEN [ls |-> g.ls, err |-> TRUE]
    ELSE LET questions == SelectSeq(g.ret.items, LAMBDA q : q.id # id)
         IN  [ls |-> [g.ls EXCEPT ![STORAGE_KEY] =
                         IF questions = <<>> THEN Absent
                         ELSE JSONstringify(Arr(questions))],
              err |-> FALSE]

deleteQuestion_KeepsMatch(store, id) ==
    LET g == getQuestions(store) IN
    IF ~g.ret.isArray THEN [ls |-> g.ls, err |-> TRUE]
    ELSE LET questions == SelectSeq(g.ret.items, LAMBDA q : q.id = id)
         IN  [ls |-> [g.ls EXCEPT ![STORAGE_KEY] = JSONstringify(Arr(questions))],
              err |-> FALSE]

\* deleteQuestion(id)
deleteQuestion(store, id) ==
    LET g == getQuestions(store) IN
    IF ~g.ret.isArray THEN [ls |-> g.ls, err |-> TRUE]
    ELSE LET questions == SelectSeq(g.ret.items, LAMBDA q : q.id # id)
         IN  [ls |-> [g.ls EXCEPT ![STORAGE_KEY] = JSONstringify(Arr(questions))],
              err |-> FALSE]

MapSet_AlwaysAppends(map, q) == Append(map, q)

\* currentMap.set(q.id, q): a Map keeps a key's first position
MapSet(map, q) ==
    LET i == findIndex(map, q.id) IN
    IF i >= 1 THEN [map EXCEPT ![i] = q] ELSE Append(map, q)

RECURSIVE MapFrom(_)
\* new Map(items.map(q => [q.id, q])), as the sequence of its values
MapFrom(items) ==
    IF items = <<>> THEN <<>>
    ELSE MapSet(MapFrom(SubSeq(items, 1, Len(items) - 1)), items[Len(items)])

RECURSIVE MapSetAll_NoCheck(_, _)
MapSetAll_NoCheck(map, newItems) ==
    IF newItems = <<>> THEN map
    ELSE MapSet(MapSetAll_NoCheck(map, SubSeq(newItems, 1, Len(newItems) - 1)),
                newItems[Len(newItems)])

RECURSIVE MapSetAll(_, _)
\* newQuestions.forEach(q => { if (q.id && q.text) currentMap.set(q.id, q) })
MapSetAll(map, newItems) ==
    IF newItems = <<>> THEN map
    ELSE LET q == newItems[Len(newItems)]
             rest == MapSetAll(map, SubSeq(newItems, 1, Len(newItems) - 1))
         IN  IF q.id # "" /\ q.text # "" THEN MapSet(rest, q) ELSE rest

InsertSorted_TiesFirst(sorted, q) ==
    LET keep == {i \in 0..Len(sorted) :
                    \A j \in 1..i : sorted[j].createdAt > q.createdAt}
        k == CHOOSE i \in keep : \A j \in keep : j <= i
    IN  SubSeq(sorted, 1, k) \o <<q>> \o SubSeq(sorted, k + 1, Len(sorted))

\* one step of a stable sort: q goes behind every element that does not
\* compare after it under (a, b) => b.createdAt - a.createdAt
InsertSorted(sorted, q) ==
    LET keep == {i \in 0..Len(sorted) :
                    \A j \in 1..i : sorted[j].createdAt >= q.createdAt}
        k == CHOOSE i \in keep : \A j \in keep : j <= i
    IN  SubSeq(sorted, 1, k) \o <<q>> \o SubSeq(sorted, k + 1, Len(sorted))

RECURSIVE SortByCreatedAtDesc_Ascending(_)
SortByCreatedAtDesc_Ascending(items) ==
    IF items = <<>> THEN <<>>
    ELSE LET sorted == SortByCreatedAtDesc_Ascending(SubSeq(items, 1, Len(items) - 1))
             q == items[Len(items)]
             keep == {i \in 0..Len(sorted) :
                         \A j \in 1..i : sorted[j].createdAt <= q.createdAt}
             k == CHOOSE i \in keep : \A j \in keep : j <= i
         IN  SubSeq(sorted, 1, k) \o <<q>> \o SubSeq(sorted, k + 1, Len(sorted))

RECURSIVE SortByCreatedAtDesc(_)
\* items.sort((a, b) => b.createdAt - a.createdAt); Array.prototype.sort is stable
SortByCreatedAtDesc(items) ==
    IF items = <<>> THEN <<>>
    ELSE InsertSorted(SortByCreatedAtDesc(SubSeq(items, 1, Len(items) - 1)),
                      items[Len(items)])

importQuestions_CoercesToEmpty(store, newQuestions) ==
    LET g == getQuestions(store)
        items == IF newQuestions.isArray THEN newQuestions.items ELSE <<>>
    IN  IF ~g.ret.isArray THEN [ls |-> g.ls, err |-> TRUE]
        ELSE [ls |-> [g.ls EXCEPT ![STORAGE_KEY] = JSONstringify(Arr(
                         SortByCreatedAtDesc(MapSetAll(MapFrom(g.ret.items), items))))],
              err |-> FALSE]

\* importQuestions(newQuestions)
importQuestions(store, newQuestions) ==
    IF ~newQuestions.isArray THEN [ls |-> store, err |-> TRUE]
    ELSE LET g == getQuestions(store) IN
         IF ~g.ret.isArray THEN [ls |-> g.ls, err |-> TRUE]
         ELSE LET currentMap == MapSetAll(MapFrom(g.ret.items), newQuestions.items)
                  merged == SortByCreatedAtDesc(currentMap)
              IN  [ls |-> [g.ls EXCEPT ![STORAGE_KEY] = JSONstringify(Arr(merged))],
                   err |-> FALSE]

\* getCategories()
getCategories(store) ==
    LET stored == store[CATEGORIES_KEY] IN
    IF Truthy(stored) THEN JSONparse(stored).items ELSE DEFAULT_CATEGORIES

\* saveCategories(categories)
saveCategories(store, categories) ==
    [store EXCEPT ![CATEGORIES_KEY] = JSONstringify(Arr(categories))]

\* categories.indexOf(name): 1-based, 0 when there is none
indexOf(categories, name) ==
    IF \E i \in 1..Len(categories) : categories[i] = name
       THEN CHOOSE i \in 1..Len(categories) :
                /\ categories[i] = name
                /\ \A j \in 1..(i - 1) : categories[j] # name
       ELSE 0

\* questions.forEach(q => { if (q.category === from) q.category = to }), and
\* the write that follows when a question was touched
Recategorize(store, from, to) ==
    LET g == getQuestions(store)
        questions == g.ret.items
        updated == \E i \in 1..Len(questions) : questions[i].category = from
        rewritten == [i \in 1..Len(questions) |->
                         IF questions[i].category = from
                            THEN [questions[i] EXCEPT !.category = to]
                            ELSE questions[i]]
    IN  IF updated
           THEN [g.ls EXCEPT ![STORAGE_KEY] = JSONstringify(Arr(rewritten))]
           ELSE g.ls

renameCategory_MovesToEnd(store, oldName, newName) ==
    LET categories == getCategories(store)
        index == indexOf(categories, oldName)
    IN  IF index = 0 THEN store
        ELSE Recategorize(
                 saveCategories(store,
                     Append(SubSeq(categories, 1, index - 1)
                                \o SubSeq(categories, index + 1, Len(categories)),
                            newName)),
                 oldName, newName)

\* renameCategory(oldName, newName)
renameCategory(store, oldName, newName) ==
    LET categories == getCategories(store)
        index == indexOf(categories, oldName)
    IN  IF index = 0 THEN store
        ELSE Recategorize(
                 saveCategories(store, [categories EXCEPT ![index] = newName]),
                 oldName, newName)

removeCategory_ForgetsQuestions(store, name) ==
    saveCategories(store, SelectSeq(getCategories(store), LAMBDA c : c # name))

\* removeCategory(name)
removeCategory(store, name) ==
    LET categories == SelectSeq(getCategories(store), LAMBDA c : c # name)
    IN  Recategorize(saveCategories(store, categories), name, "Other")

(***************************************************************************)
(* Inputs                                                                  *)
(***************************************************************************)
ExtIds == {"a", "b"}                    \* ids that arrive in files and legacy keys
Uuids == [i \in 1..(MaxUuid + 1) |-> IF i = 1 THEN "u1" ELSE IF i = 2 THEN "u2" ELSE "u3"]
Texts == {"Q1", "Q2"}
FormCategories == {"Other", "NLP"}      \* the category select of the form
AutoCategories == {"Other", "NLP"}      \* what autoCategorize() answers
CatLabels == {"NLP"}           \* labels typed into category management

KnownIds == ExtIds \cup {Uuids[i] : i \in 1..uuidCount}

\* records of an import file: with and without id and text, old and new
ImportPool ==
    {Question("a", "Q1", "NLP", 1, 1), Question("a", "Q1", "NLP", MaxTime, MaxTime),
     Question("", "Q1", "NLP", 1, 1), Question("b", "", "NLP", 1, 1)}

RECURSIVE SeqsUpTo(_, _)
SeqsUpTo(S, n) ==
    IF n = 0 THEN {<<>>}
    ELSE LET shorter == SeqsUpTo(S, n - 1)
         IN  shorter \cup {Append(s, x) : s \in shorter, x \in S}

Batches == SeqsUpTo(ImportPool, MaxBatch)

ArrayText(items) == [kind |-> "array", val |-> items]

\* the files a user can pick: unparseable, JSON that is no array, arrays
Files == {Garbage, ObjectText} \cup {ArrayText(b) : b \in Batches}

\* a few of them, for the specifications of all handlers together: one
\* that is rejected, one that adds a record, one with a record to skip
FewFiles ==
    {Garbage,
     ArrayText(<<Question("a", "Q1", "NLP", MaxTime, MaxTime)>>),
     ArrayText(<<Question("", "Q1", "NLP", 1, 1), Question("a", "Q1", "Other", 1, 1)>>)}

\* what an earlier version of the application left under a legacy key
LegacyArray == <<Question("a", "Q2", "Other", 1, 1)>>

\* what the i-th legacy key may hold: nothing, "", text that is no JSON, JSON
\* that is no array, an empty array, questions
LegacyContents(i) ==
    {Absent, EmptyString, Garbage, ObjectText, ArrayText(<<>>),
     ArrayText(IF i = 1 THEN <<Question("b", "Q1", "NLP", 1, 1)>>
               ELSE IF i = 2 THEN LegacyArray
               ELSE <<Question("a", "Q1", "NLP", 1, 1), Question("b", "Q2", "Other", 1, 1)>>)}

(***************************************************************************)
(* App.tsx: the list shown                                                 *)
(***************************************************************************)
\* const oneDay = 24 * 60 * 60 * 1000 milliseconds.  The clock of this module
\* counts seconds where days matter: 365 days of milliseconds do not fit the
\* integers of the model checker, and whole seconds compare as their
\* milliseconds do.
oneDay == 24 * 60 * 60

\* the characters of the strings that texts, company tags and searches are
Spelling(str) ==
    CASE str = "" -> <<>>
      [] str = "Q1" -> <<"Q", "1">>
      [] str = "Q2" -> <<"Q", "2">>
      [] str = "Meta" -> <<"M", "e", "t", "a">>
      [] str = "q" -> <<"q">>
      [] str = "q2" -> <<"q", "2">>
      [] str = "ME" -> <<"M", "E">>
      [] str = "x" -> <<"x">>

toLowerCase_Identity(chars) == chars

\* String.prototype.toLowerCase, character by character
toLowerCase(chars) ==
    [i \in 1..Len(chars) |->
        CASE chars[i] = "Q" -> "q"
          [] chars[i] = "M" -> "m"
          [] chars[i] = "E" -> "e"
          [] OTHER -> chars[i]]

RECURSIVE includes(_, _)
\* String.prototype.includes: sub starts chars, or the rest of chars includes it
includes(chars, sub) ==
    \/ sub = <<>>
    \/ /\ Len(sub) <= Len(chars)
       /\ \/ SubSeq(chars, 1, Len(sub)) = sub
          \/ includes(Tail(chars), sub)

\* q.companyTag, "" standing for undefined as well: both are falsy
companyTag(q) == IF "companyTag" \in DOMAIN q THEN q.companyTag ELSE ""

\* the callback of useMemo, run at time t
filteredQuestions(questions, selectedCategory, dateFilter, searchQuery, t) ==
    LET matches(q) ==
            LET matchCategory == selectedCategory = "All" \/ q.category = selectedCategory
                diff == t - q.updatedAt
                matchDate ==
                    IF dateFilter = "all" THEN TRUE
                    ELSE IF dateFilter = "today" THEN diff < oneDay
                    ELSE IF dateFilter = "week" THEN diff < oneDay * 7
                    ELSE IF dateFilter = "month" THEN diff < oneDay * 30
                    ELSE IF dateFilter = "year" THEN diff < oneDay * 365
                    ELSE TRUE
                needle == toLowerCase(Spelling(searchQuery))
                matchSearch ==
                    \/ includes(toLowerCase(Spelling(q.text)), needle)
                    \/ /\ companyTag(q) # ""
                       /\ includes(toLowerCase(Spelling(companyTag(q))), needle)
            IN  matchCategory /\ matchDate /\ matchSearch
    IN  SelectSeq(questions, matches)

\* useState(...) of App
InitialState ==
    [questions |-> <<>>, selectedCategory |-> "All", dateFilter |-> "all",
     searchQuery |-> "", filteredQuestions |-> <<>>]

\* a render after state changed to u at time t: a dependency of useMemo
\* changed, so the callback runs
Rendered(u, t) ==
    [u EXCEPT !.filteredQuestions =
        filteredQuestions(u.questions, u.selectedCategory, u.dateFilter, u.searchQuery, t)]

\* setQuestions(items): a new array every time, so the list is computed anew
setQuestions(u, items, t) == Rendered([u EXCEPT !.questions = items], t)

(***************************************************************************)
(* State                                                                   *)
(***************************************************************************)
Last(op, err, q, id, payload, ret) ==
    [op |-> op, err |-> err, q |-> q, id |-> id, payload |-> payload, ret |-> ret]

EmptyStorage == [k \in Keys |-> Absent]

\* a form nobody typed into: the formData of useState and of handleCreateNew
NoDraft ==
    [text |-> "", answer |-> "", category |-> "Other", isAiGenerated |-> FALSE,
     sources |-> <<>>]

\* useState(...) of App for the view, the form and the chat; chatSessionRef
\* is FALSE for null
InitialApp ==
    [view |-> "LIST", currentQuestion |-> NoQuestion, formData |-> NoDraft,
     isGenerating |-> FALSE, chatHistory |-> <<>>, chatInput |-> "",
     isChatLoading |-> FALSE, chatSessionRef |-> FALSE]

\* the sessions that share localStorage
Tabs == {1, 2}

\* a tab that shows nothing and has no store operation under way
NoTab ==
    [questions |-> <<>>, call |-> "none", q |-> NoQuestion, id |-> "",
     payload |-> Absent, dataString |-> Absent]

\* let directoryHandle = null, and no file written yet
NoFile == [directoryHandle |-> FALSE, content |-> Absent, failed |-> FALSE]

InitOthers ==
    /\ app = InitialApp
    /\ pending = <<>>
    /\ mirror = NoFile
    /\ tabs = [s \in Tabs |-> NoTab]

InitRest ==
    /\ now = 1
    /\ uuidCount = 0
    /\ last = Last("init", FALSE, NoQuestion, "", Absent, <<>>)
    /\ ui = InitialState
    /\ InitOthers

\* a fresh profile, or one where an earlier version left its questions
Init ==
    /\ ls \in {EmptyStorage,
               [EmptyStorage EXCEPT ![LEGACY_KEYS[2]] = ArrayText(LegacyArray)]}
    /\ InitRest

\* a profile with anything under the legacy keys and no canonical key
InitLegacy ==
    /\ ls \in {[EmptyStorage EXCEPT ![LEGACY_KEYS[1]] = c1,
                                    ![LEGACY_KEYS[2]] = c2,
                                    ![LEGACY_KEYS[3]] = c3] :
                   c1 \in LegacyContents(1), c2 \in LegacyContents(2),
                   c3 \in LegacyContents(3)}
    /\ InitRest

\* a profile whose canonical key holds anything a string can be: nothing, "",
\* text that is no JSON, JSON that is no array, an array
InitAnyStored ==
    /\ ls \in {[EmptyStorage EXCEPT ![STORAGE_KEY] = c, ![LEGACY_KEYS[2]] = l] :
                   c \in {Absent, EmptyString, Garbage, ObjectText, ArrayText(<<>>),
                          ArrayText(<<Question("b", "Q1", "NLP", 1, 1)>>)},
                   l \in {Absent, ArrayText(LegacyArray)}}
    /\ InitRest

\* the moment the list is first looked at, and updatedAt one tick of the
\* clock short of days days before it
FilterEpoch == 365 * oneDay

Aged(days) == FilterEpoch - days * oneDay + 1

\* q with a company tag
WithTag(q, tag) ==
    [f \in DOMAIN q \cup {"companyTag"} |-> IF f = "companyTag" THEN tag ELSE q[f]]

\* stores to look at: two questions without company tag, and four of every
\* age with and without
FilterStores ==
    {<<Question("a", "Q1", "NLP", 1, Aged(1)), Question("b", "Q2", "Other", 1, Aged(7))>>,
     <<WithTag(Question("a", "Q2", "Other", 1, Aged(30)), "Meta"),
       Question("b", "Q1", "NLP", 1, Aged(365)),
       WithTag(Question("c", "Q1", "NLP", 1, Aged(1)), ""),
       WithTag(Question("d", "Q2", "NLP", 1, Aged(7)), "Meta")>>}

\* the application is opened on such a store
InitFilter ==
    /\ ls \in {[EmptyStorage EXCEPT ![STORAGE_KEY] = ArrayText(store)] :
                   store \in FilterStores}
    /\ now = FilterEpoch
    /\ uuidCount = 0
    /\ last = Last("init", FALSE, NoQuestion, "", Absent, <<>>)
    /\ ui = InitialState
    /\ InitOthers

\* the questions as getQuestions() reports them
Stored(store) == getQuestions(store).ret.items

(***************************************************************************)
(* Handlers                                                                *)
(***************************************************************************)
\* refreshAll(): setQuestions(getQuestions()); setCategories(getCategories())
RefreshAll ==
    LET g == getQuestions(ls) IN
    /\ ls' = g.ls
    /\ last' = Last("getAll", FALSE, NoQuestion, "", Absent, g.ret.items)
    /\ ui' = setQuestions(ui, g.ret.items, now)
    /\ UNCHANGED <<now, uuidCount>>
    /\ UNCHANGED others

\* handleSave() with the form holding text and formCategory; currentQuestion
\* is NoQuestion for a new question
handleSave(currentQuestion, text, formCategory, autoCategory, t) ==
    LET isNew == currentQuestion = NoQuestion
        finalCategory == IF isNew /\ formCategory = "Other"
                            THEN autoCategory ELSE formCategory
        newQuestion == Question(
            IF isNew THEN Uuids[uuidCount + 1] ELSE currentQuestion.id,
            text, finalCategory,
            IF isNew THEN t ELSE currentQuestion.createdAt,
            t)
        r == saveQuestion(ls, newQuestion)
        g == getQuestions(r.ls)
    IN  /\ text # ""
        /\ isNew => uuidCount < MaxUuid
        /\ ls' = g.ls
        /\ uuidCount' = IF isNew THEN uuidCount + 1 ELSE uuidCount
        /\ last' = Last("save", r.err, newQuestion, newQuestion.id, Absent, <<>>)
        /\ ui' = IF r.err THEN ui ELSE setQuestions(ui, g.ret.items, t)
        /\ now' = t
        /\ UNCHANGED others

\* Save on the form opened by handleCreateNew()
HandleSaveNew(texts) ==
    \E text \in texts, autoCategory \in AutoCategories, t \in now..MaxTime :
        handleSave(NoQuestion, text, "Other", autoCategory, t)

\* Save on the form opened by handleEdit(q) for a stored question
HandleSaveEdit(texts, categories) ==
    \E currentQuestion \in Range(Stored(ls)), text \in texts, t \in now..MaxTime :
        \E formCategory \in categories \cup {currentQuestion.category} :
            handleSave(currentQuestion, text, formCategory, "Other", t)

\* the delete button: deleteQuestion(q.id).then(refreshAll)
handleDelete(id) ==
    LET r == deleteQuestion(ls, id)
        g == getQuestions(r.ls)
    IN
    /\ ls' = g.ls
    /\ last' = Last("delete", r.err, NoQuestion, id, Absent, <<>>)
    /\ ui' = IF r.err THEN ui ELSE setQuestions(ui, g.ret.items, now)
    /\ UNCHANGED <<now, uuidCount>>
    /\ UNCHANGED others

HandleDelete == \E id \in KnownIds : handleDelete(id)

\* the delete button of a question the list shows
HandleDeleteShown == \E q \in Range(ui.questions) : handleDelete(q.id)

\* reader.onload of handleFileChange for a .json file
handleFileChange(file) ==
    LET parsed == JSONparse(file)
        r == IF JSONparseThrows(file) THEN [ls |-> ls, err |-> TRUE]
             ELSE importQuestions(ls, parsed)
        g == getQuestions(r.ls)
    IN  /\ ls' = IF r.err THEN r.ls ELSE g.ls
        /\ last' = Last("import", r.err, NoQuestion, "", file, <<>>)
        /\ ui' = IF r.err THEN ui ELSE setQuestions(ui, g.ret.items, now)
        /\ UNCHANGED <<now, uuidCount>>
        /\ UNCHANGED others

HandleFileChange(files) == \E file \in files : handleFileChange(file)

\* exportQuestions(): the downloaded file holds JSON.stringify(getQuestions())
ExportQuestions ==
    LET g == getQuestions(ls) IN
    /\ ls' = g.ls
    /\ last' = Last("export", FALSE, NoQuestion, "", JSONstringify(g.ret), <<>>)
    /\ UNCHANGED <<now, uuidCount, ui>>
    /\ UNCHANGED others

\* !name.trim(): nothing but white space
IsBlank(name) == name \in {"", " "}

\* handleAddCategory() with newCatName typed into the field
handleAddCategory(newCatName) ==
    LET categories == getCategories(ls) IN
    /\ ls' = IF IsBlank(newCatName) \/ indexOf(categories, newCatName) >= 1
                THEN ls
                ELSE saveCategories(ls, Append(categories, newCatName))
    /\ last' = Last("addCat", FALSE, [NoQuestion EXCEPT !.category = newCatName],
                    "", Absent, <<>>)
    /\ UNCHANGED <<now, uuidCount, ui>>
    /\ UNCHANGED others

handleRenameCat_NoGuard(oldName, newName) ==
    LET g == getQuestions(renameCategory(ls, oldName, newName)) IN
    /\ ls' = g.ls
    /\ ui' = setQuestions(ui, g.ret.items, now)
    /\ last' = Last("renameCat", FALSE, [NoQuestion EXCEPT !.category = newName],
                    oldName, ls[STORAGE_KEY], <<>>)
    /\ UNCHANGED <<now, uuidCount>>
    /\ UNCHANGED others

\* handleRenameCat(oldName, newName); last.id is oldName, last.q.category is
\* newName and last.payload the canonical key as the handler found it
handleRenameCat(oldName, newName) ==
    LET refused == IsBlank(newName) \/ oldName = newName
        g == getQuestions(renameCategory(ls, oldName, newName))
    IN
    /\ ls' = IF refused THEN ls ELSE g.ls
    /\ ui' = IF refused THEN ui ELSE setQuestions(ui, g.ret.items, now)
    /\ last' = Last("renameCat", FALSE, [NoQuestion EXCEPT !.category = newName],
                    oldName, ls[STORAGE_KEY], <<>>)
    /\ UNCHANGED <<now, uuidCount>>
    /\ UNCHANGED others

handleRemoveCat_NoGuard(name) ==
    LET g == getQuestions(removeCategory(ls, name)) IN
    /\ ls' = g.ls
    /\ ui' = setQuestions(ui, g.ret.items, now)
    /\ last' = Last("removeCat", FALSE, NoQuestion, name, ls[STORAGE_KEY], <<>>)
    /\ UNCHANGED <<now, uuidCount>>
    /\ UNCHANGED others

\* handleRemoveCat(name), the confirm() dialog accepted; last.id is name and
\* last.payload the canonical key as the handler found it
handleRemoveCat(name) ==
    LET refused == name = "Other"
        g == getQuestions(removeCategory(ls, name))
    IN
    /\ ls' = IF refused THEN ls ELSE g.ls
    /\ ui' = IF refused THEN ui ELSE setQuestions(ui, g.ret.items, now)
    /\ last' = Last("removeCat", FALSE, NoQuestion, name, ls[STORAGE_KEY], <<>>)
    /\ UNCHANGED <<now, uuidCount>>
    /\ UNCHANGED others

\* the pencil and Save of the category list, on a label of the list
HandleRenameCat ==
    \E oldName \in Range(getCategories(ls)) \cap CatLabels, newName \in {"Algos", ""} :
        handleRenameCat(oldName, newName)

\* the bin of the category list, on a label of the list
HandleRemoveCat ==
    \E name \in Range(getCategories(ls)) \cap (CatLabels \cup {"Other"}) :
        handleRemoveCat(name)

\* the labels category management is driven with: two of the list, one that
\* can be added, one that never is in the list
CatNames == {"NLP", "Other", "Algos", "Ghost"}

\* what is typed as a new label
NewCatNames == {"Algos", "NLP", "", " "}

HandleAddCategory ==
    /\ Len(getCategories(ls)) < MaxCategories
    /\ \E newCatName \in NewCatNames : handleAddCategory(newCatName)

HandleRenameAnyCat ==
    \E oldName \in CatNames, newName \in NewCatNames : handleRenameCat(oldName, newName)

HandleRemoveAnyCat == \E name \in CatNames : handleRemoveCat(name)

\* files with a question of each label
CatFiles ==
    {ArrayText(<<Question("a", "Q1", "NLP", 1, 1), Question("b", "Q2", "Other", 1, 1)>>)}

\* what loadInitialDataFromProject() resolves to: null when the file is
\* missing, unreadable or no array, else the array of the file
SeedRecords == <<Question("a", "Q1", "NLP", MaxTime, MaxTime), Question("b", "Q2", "Other", 1, 1)>>

ProjectData == {NotArr, Arr(<<>>), Arr(SeedRecords)}

\* the init effect of App.tsx: the seed is imported when the store is empty
init(projectData) ==
    LET wanted == projectData.isArray /\ Len(projectData.items) > 0
        g == getQuestions(ls)
        localData == g.ret
        r == IF wanted /\ localData.isArray /\ Len(localData.items) = 0
                THEN importQuestions(g.ls, projectData)
                ELSE [ls |-> IF wanted THEN g.ls ELSE ls, err |-> FALSE]
        refreshed == getQuestions(r.ls)
    IN  /\ ls' = IF r.err THEN r.ls ELSE refreshed.ls
        /\ last' = Last("startup", r.err, NoQuestion, "",
                        IF projectData.isArray THEN JSONstringify(projectData) ELSE Absent,
                        <<>>)
        /\ ui' = IF r.err THEN ui ELSE setQuestions(ui, refreshed.ret.items, now)
        /\ UNCHANGED <<now, uuidCount>>
        /\ UNCHANGED others

\* the init effect of the App of part_004: the seed is imported whenever
\* there is one
init_part_004(projectData) ==
    LET wanted == projectData.isArray /\ Len(projectData.items) > 0
        r == IF wanted THEN importQuestions(ls, projectData)
                       ELSE [ls |-> ls, err |-> FALSE]
        refreshed == getQuestions(r.ls)
    IN  /\ ls' = IF r.err THEN r.ls ELSE refreshed.ls
        /\ last' = Last("startup", r.err, NoQuestion, "",
                        IF projectData.isArray THEN JSONstringify(projectData) ELSE Absent,
                        <<>>)
        /\ ui' = IF r.err THEN ui ELSE setQuestions(ui, refreshed.ret.items, now)
        /\ UNCHANGED <<now, uuidCount>>
        /\ UNCHANGED others

\* the page is loaded, or loaded again
AppInit == \E projectData \in ProjectData : init(projectData)

AppInit_part_004 == \E projectData \in ProjectData : init_part_004(projectData)

\* a click on a category of the side bar
SetSelectedCategory ==
    \E cat \in {"All", "NLP", "Other"} :
        /\ ui' = IF cat = ui.selectedCategory THEN ui
                 ELSE Rendered([ui EXCEPT !.selectedCategory = cat], now)
        /\ last' = Last("filter", FALSE, NoQuestion, "", Absent, <<>>)
        /\ UNCHANGED <<ls, now, uuidCount>>
        /\ UNCHANGED others

\* a click on a period of the side bar
SetDateFilter ==
    \E item \in {"all", "today", "week", "month", "year"} :
        /\ ui' = IF item = ui.dateFilter THEN ui
                 ELSE Rendered([ui EXCEPT !.dateFilter = item], now)
        /\ last' = Last("filter", FALSE, NoQuestion, "", Absent, <<>>)
        /\ UNCHANGED <<ls, now, uuidCount>>
        /\ UNCHANGED others

\* typing into the search field
SetSearchQuery ==
    \E value \in {"", "q", "q2", "ME", "x"} :
        /\ ui' = IF value = ui.searchQuery THEN ui
                 ELSE Rendered([ui EXCEPT !.searchQuery = value], now)
        /\ last' = Last("filter", FALSE, NoQuestion, "", Absent, <<>>)
        /\ UNCHANGED <<ls, now, uuidCount>>
        /\ UNCHANGED others

\* the clock ticks and nothing else happens
Tick ==
    /\ now >= FilterEpoch
    /\ now < FilterEpoch + MaxTime
    /\ now' = now + 1
    /\ UNCHANGED <<ls, uuidCount, last, ui>>
    /\ UNCHANGED others

(***************************************************************************)
(* Specifications                                                          *)
(***************************************************************************)
\* every handler, on few inputs
Next ==
    \/ RefreshAll
    \/ HandleSaveNew({"Q1"})
    \/ HandleSaveEdit({"Q2"}, {})
    \/ HandleDelete
    \/ HandleFileChange(FewFiles)
    \/ ExportQuestions
    \/ HandleRenameCat
    \/ HandleRemoveCat

Spec == Init /\ [][Next]_vars

\* nothing but saves
NextSave ==
    \/ HandleSaveNew(Texts)
    \/ HandleSaveEdit(Texts, FormCategories)

SpecSave == Init /\ [][NextSave]_vars

\* imports of every file, between saves and exports
NextImport ==
    \/ HandleFileChange(Files)
    \/ HandleSaveNew({"Q1"})
    \/ ExportQuestions

SpecImport == Init /\ [][NextImport]_vars

\* reads, saves and deletes over every content of the legacy keys
NextLegacy ==
    \/ RefreshAll
    \/ HandleSaveNew({"Q1"})
    \/ HandleDelete

SpecLegacy == InitLegacy /\ [][NextLegacy]_vars

\* reads and writes over every content of the canonical key
NextAnyStored ==
    \/ RefreshAll
    \/ HandleSaveNew({"Q1"})
    \/ HandleDelete
    \/ HandleFileChange(FewFiles)

SpecAnyStored == InitAnyStored /\ [][NextAnyStored]_vars

\* category management over questions of several labels
NextCat ==
    \/ HandleAddCategory
    \/ HandleRenameAnyCat
    \/ HandleRemoveAnyCat
    \/ HandleFileChange(CatFiles)

SpecCat == Init /\ [][NextCat]_vars

\* page loads of both versions of the App, between saves, edits and deletes
NextStartup ==
    \/ AppInit
    \/ AppInit_part_004
    \/ HandleSaveNew({"Q1"})
    \/ HandleSaveEdit({"Q2"}, {})
    \/ HandleDelete

SpecStartup == Init /\ [][NextStartup]_vars

\* looking at the list: the filters are set while time passes
NextFilter ==
    \/ RefreshAll
    \/ SetSelectedCategory
    \/ SetDateFilter
    \/ SetSearchQuery
    \/ Tick

SpecFilter == InitFilter /\ [][NextFilter]_vars

(***************************************************************************)
(* Two sessions on one localStorage                                        *)
(*                                                                         *)
(* Each tab runs its own App on the same localStorage.  tabs[s] holds the  *)
(* questions state of session s (what its last refreshAll() read) and, in  *)
(* the middle of a store operation, the string the operation is about to   *)
(* write.  A store operation reads the whole collection with getItem and   *)
(* writes the whole collection back with setItem.  Inside one tab nothing  *)
(* runs between the two; localStorage has no lock across tabs (HTML        *)
(* standard, "authors are encouraged to assume that there is no locking    *)
(* mechanism"), so a write of the other tab may land between them.         *)
(***************************************************************************)
\* refreshAll() in session s
TabRefreshAll(s) ==
    LET g == getQuestions(ls) IN
    /\ tabs[s].call = "none"
    /\ ls' = g.ls
    /\ tabs' = [tabs EXCEPT ![s].questions = g.ret.items]
    /\ last' = Last("getAll", FALSE, NoQuestion, "", Absent, g.ret.items)
    /\ UNCHANGED <<now, uuidCount, ui, app, pending, mirror>>

\* session s has read the collection for an operation and holds the string
\* it will write; r is the operation run on what localStorage holds now
TabRead(s, call, q, id, payload, r) ==
    /\ tabs[s].call = "none"
    /\ ~r.err
    /\ tabs' = [tabs EXCEPT ![s] =
                   [@ EXCEPT !.call = call, !.q = q, !.id = id, !.payload = payload,
                             !.dataString = r.ls[STORAGE_KEY]]]
    /\ UNCHANGED <<ls, uuidCount, last, ui, app, pending, mirror>>

\* handleSave() in session s on the form opened by handleEdit(q), q a question
\* the session shows, up to the getQuestions() of saveQuestion
TabSaveEditRead(s) ==
    \E currentQuestion \in Range(tabs[s].questions) :
        LET newQuestion == Question(currentQuestion.id, "Q2", currentQuestion.category,
                                    currentQuestion.createdAt, now)
        IN  /\ TabRead(s, "save", newQuestion, newQuestion.id, Absent,
                       saveQuestion(ls, newQuestion))
            /\ UNCHANGED now

\* the delete button of the list of session s, up to the getQuestions() of
\* deleteQuestion
TabDeleteRead(s) ==
    \E q \in Range(tabs[s].questions) :
        /\ TabRead(s, "delete", NoQuestion, q.id, Absent, deleteQuestion(ls, q.id))
        /\ UNCHANGED now

\* a file is imported in session s, up to the getQuestions() of importQuestions
TabImportRead(s, files) ==
    \E f \in files :
        /\ ~JSONparseThrows(f)
        /\ TabRead(s, "import", NoQuestion, "", f, importQuestions(ls, JSONparse(f)))
        /\ UNCHANGED now

\* localStorage.setItem(STORAGE_KEY, ...) of the operation under way in
\* session s, and the refreshAll() that follows it
TabWrite(s) ==
    LET written == [ls EXCEPT ![STORAGE_KEY] = tabs[s].dataString]
        g == getQuestions(written)
    IN  /\ tabs[s].call # "none"
        /\ ls' = g.ls
        /\ last' = Last(tabs[s].call, FALSE, tabs[s].q, tabs[s].id, tabs[s].payload, <<>>)
        /\ tabs' = [tabs EXCEPT ![s] = [NoTab EXCEPT !.questions = g.ret.items]]
        /\ UNCHANGED <<now, uuidCount, ui, app, pending, mirror>>

\* the file imported: another version of a stored question
TabFiles == {ArrayText(<<Question("b", "Q2", "NLP", 1, MaxTime)>>)}

\* both tabs are opened on a store of two questions
InitTabs ==
    /\ ls = [EmptyStorage EXCEPT ![STORAGE_KEY] =
                 ArrayText(<<Question("a", "Q1", "NLP", 1, 1),
                             Question("b", "Q1", "Other", 1, 1)>>)]
    /\ InitRest

\* two sessions read, save edits, delete and import in any order
NextTabs ==
    \E s \in Tabs :
        \/ TabRefreshAll(s)
        \/ TabSaveEditRead(s)
        \/ TabDeleteRead(s)
        \/ TabImportRead(s, TabFiles)
        \/ TabWrite(s)

SpecTabs == InitTabs /\ [][NextTabs]_vars

(***************************************************************************)
(* App.tsx: the form and the calls it awaits                               *)
(*                                                                         *)
(* App is one component that is never unmounted: the list, the form and    *)
(* the detail view are branches of its render, and formData, isGenerating  *)
(* and the chat are its state whatever the view.  A handler that awaits a  *)
(* call of the AI service is two steps: up to the await, which leaves the  *)
(* call in pending, and from the await on, when the call settles.  The     *)
(* second step reads the variables the handler captured when it began and  *)
(* applies functional updates (prev => ...) to the state as it is then.    *)
(* A call in pending also records whether the user has left the form it    *)
(* was made from (left), and whether that form has been saved by another   *)
(* Save since (again); the program keeps no such record.                   *)
(***************************************************************************)
\* what the form holds for a stored question: handleEdit(q).  The questions
\* of this module carry no answer, so the form opens with none
DraftOf(q) ==
    [text |-> q.text, answer |-> "",
     category |-> IF q.category = "" THEN "Other" ELSE q.category,
     isAiGenerated |-> FALSE, sources |-> <<>>]

\* pending without its i-th call
Settled(calls, i) == SubSeq(calls, 1, i - 1) \o SubSeq(calls, i + 1, Len(calls))

\* the user leaves the form: every call made from it is marked; a call of
\* syncToLocalFile() has no form to go back to and carries no mark
Left(calls) ==
    [i \in 1..Len(calls) |->
        IF "left" \in DOMAIN calls[i] THEN [calls[i] EXCEPT !.left = TRUE]
                                       ELSE calls[i]]

\* the form is saved: every call awaited by another Save of the same form,
\* one made from it that the user has not left since, is marked
Resubmitted(calls) ==
    [i \in 1..Len(calls) |->
        IF calls[i].kind = "categorize" /\ ~calls[i].left
           THEN [calls[i] EXCEPT !.again = TRUE] ELSE calls[i]]

\* UI steps leave the store, the clock and the ids alone
UiStep(op) ==
    /\ last' = Last(op, FALSE, NoQuestion, "", Absent, <<>>)
    /\ UNCHANGED <<ls, now, uuidCount, ui, mirror, tabs>>

\* handleCreateNew(): the button of the header, shown in every view
HandleCreateNew ==
    /\ app' = [app EXCEPT !.formData = NoDraft, !.currentQuestion = NoQuestion,
                          !.chatHistory = <<>>, !.chatSessionRef = FALSE,
                          !.view = "FORM"]
    /\ pending' = Left(pending)
    /\ UiStep("createNew")

\* handleEdit(q): the pencil of a question of the list
HandleEdit ==
    \E q \in Range(ui.questions) :
        /\ app.view = "LIST"
        /\ app' = [app EXCEPT !.currentQuestion = q, !.formData = DraftOf(q),
                              !.chatHistory = <<>>, !.chatSessionRef = FALSE,
                              !.view = "FORM"]
        /\ pending' = Left(pending)
        /\ UiStep("edit")

\* setView(AppView.LIST): the back and the cancel button of the form
BackToList ==
    /\ app.view = "FORM"
    /\ app' = [app EXCEPT !.view = "LIST"]
    /\ pending' = Left(pending)
    /\ UiStep("back")

\* typing the question into the form
SetFormText ==
    \E text \in {"Q1"} :
        /\ app.view = "FORM"
        /\ app.formData.text # text
        /\ app' = [app EXCEPT !.formData.text = text]
        /\ UNCHANGED pending
        /\ UiStep("type")

\* what generateInterviewAnswer() resolves to
GenerateResults ==
    {[answer |-> "AI", category |-> c, sources |-> <<"web">>] : c \in AutoCategories}

\* handleGenerateAnswer() up to the await; the button is disabled while
\* isGenerating
HandleGenerateAnswer ==
    /\ app.view = "FORM"
    /\ ~app.isGenerating
    /\ app.formData.text # ""
    /\ Len(pending) < MaxPending
    /\ app' = [app EXCEPT !.isGenerating = TRUE]
    /\ pending' = Append(pending, [kind |-> "generate", left |-> FALSE])
    /\ UiStep("generate")

\* handleGenerateAnswer() from the await on: the call resolved with a result
\* or threw; finally starts the timer that clears isGenerating.  last.id tells
\* whether the user had left the form the call was made from
GenerateSettles ==
    \E i \in 1..Len(pending), failed \in BOOLEAN, result \in GenerateResults :
        /\ pending[i].kind = "generate"
        /\ app' = IF failed THEN app
                  ELSE [app EXCEPT !.formData.answer = result.answer,
                                   !.formData.category = result.category,
                                   !.formData.isAiGenerated = TRUE,
                                   !.formData.sources = result.sources]
        /\ pending' = Append(Settled(pending, i), [kind |-> "timeout", left |-> FALSE])
        /\ last' = Last("generated", failed, NoQuestion,
                        IF pending[i].left THEN "left" ELSE "", Absent, <<>>)
        /\ UNCHANGED <<ls, now, uuidCount, ui, mirror, tabs>>

\* the callback of setTimeout(..., 500): setIsGenerating(false)
GenerateTimeout ==
    \E i \in 1..Len(pending) :
        /\ pending[i].kind = "timeout"
        /\ app' = [app EXCEPT !.isGenerating = FALSE]
        /\ pending' = Settled(pending, i)
        /\ UiStep("timeout")

\* handleSave() from const now = Date.now() on, with the currentQuestion and
\* formData the handler captured when Save was clicked: the question is
\* saved, the list refreshed and shown.  When saveQuestion throws, the
\* handler ends there
saveFromForm(currentQuestion, formData, finalCategory, t) ==
    LET isNew == currentQuestion = NoQuestion
        newQuestion == Question(
            IF isNew THEN Uuids[uuidCount + 1] ELSE currentQuestion.id,
            formData.text, finalCategory,
            IF isNew THEN t ELSE currentQuestion.createdAt,
            t)
        r == saveQuestion(ls, newQuestion)
        g == getQuestions(r.ls)
    IN  /\ isNew => uuidCount < Len(Uuids)
        /\ ls' = g.ls
        /\ uuidCount' = IF isNew THEN uuidCount + 1 ELSE uuidCount
        /\ last' = Last("save", r.err, newQuestion, newQuestion.id, Absent, <<>>)
        /\ ui' = IF r.err THEN ui ELSE setQuestions(ui, g.ret.items, t)
        /\ app' = IF r.err THEN app ELSE [app EXCEPT !.view = "LIST"]
        /\ now' = t
        /\ UNCHANGED <<mirror, tabs>>

\* handleSave() up to its first await.  For a new question filed under
\* "Other" that is autoCategorize(); else the handler runs through.  The Save
\* button is never disabled
HandleSaveClick ==
    /\ app.view = "FORM"
    /\ app.formData.text # ""
    /\ IF app.currentQuestion = NoQuestion /\ app.formData.category = "Other"
          THEN /\ Len(pending) < MaxPending
               /\ pending' = Append(pending,
                                    [kind |-> "categorize", left |-> FALSE,
                                     again |-> FALSE,
                                     currentQuestion |-> app.currentQuestion,
                                     formData |-> app.formData])
               /\ last' = Last("saveClick", FALSE, NoQuestion, "", Absent, <<>>)
               /\ UNCHANGED <<ls, now, uuidCount, ui, app, mirror, tabs>>
          ELSE /\ saveFromForm(app.currentQuestion, app.formData,
                               app.formData.category, now)
               /\ pending' = Left(Resubmitted(pending))

\* handleSave() from await autoCategorize() on: the call answered a category
\* ("Other" when the service failed)
AutoCategorizeSettles ==
    \E i \in 1..Len(pending), autoCategory \in AutoCategories :
        /\ pending[i].kind = "categorize"
        /\ saveFromForm(pending[i].currentQuestion, pending[i].formData, autoCategory, now)
        /\ pending' = Left(Resubmitted(Settled(pending, i)))

\* the application is opened on a store of one question
InitForm ==
    /\ ls = [EmptyStorage EXCEPT ![STORAGE_KEY] =
                 ArrayText(<<Question("a", "Q2", "NLP", 1, 1)>>)]
    /\ InitRest

\* the form: opened, typed into, left, saved, and an answer asked for
NextForm ==
    \/ RefreshAll
    \/ HandleCreateNew
    \/ HandleEdit
    \/ BackToList
    \/ SetFormText
    \/ HandleGenerateAnswer
    \/ GenerateSettles
    \/ GenerateTimeout
    \/ HandleSaveClick
    \/ AutoCategorizeSettles

SpecForm == InitForm /\ [][NextForm]_vars

(***************************************************************************)
(* App.tsx: the detail view                                                *)
(***************************************************************************)
\* handleViewDetail(q): a click on a question of the list
HandleViewDetail ==
    \E q \in Range(ui.filteredQuestions) :
        /\ app.view = "LIST"
        /\ app' = [app EXCEPT !.currentQuestion = q, !.view = "DETAIL"]
        /\ UNCHANGED pending
        /\ UiStep("viewDetail")

\* the back button of the detail view
DetailBack ==
    /\ app.view = "DETAIL"
    /\ app' = [app EXCEPT !.view = "LIST"]
    /\ UNCHANGED pending
    /\ UiStep("back")

\* the delete button of the detail view:
\* deleteQuestion(currentQuestion.id).then(() => setView(AppView.LIST))
HandleDeleteDetail ==
    LET r == deleteQuestion(ls, app.currentQuestion.id) IN
    /\ app.view = "DETAIL"
    /\ ls' = r.ls
    /\ last' = Last("delete", r.err, NoQuestion, app.currentQuestion.id, Absent, <<>>)
    /\ app' = IF r.err THEN app ELSE [app EXCEPT !.view = "LIST"]
    /\ UNCHANGED <<now, uuidCount, ui, pending, mirror, tabs>>

\* the handlers of the list view, with the list shown
ListRefreshAll == app.view = "LIST" /\ RefreshAll

ListSaveNew == app.view = "LIST" /\ HandleSaveNew({"Q1"})

ListDelete == app.view = "LIST" /\ HandleDelete

ListFileChange == app.view = "LIST" /\ HandleFileChange(FewFiles)

\* the list and the detail view: questions are added, looked at and deleted
NextViews ==
    \/ ListRefreshAll
    \/ ListSaveNew
    \/ ListDelete
    \/ ListFileChange
    \/ HandleViewDetail
    \/ DetailBack
    \/ HandleDeleteDetail

SpecViews == Init /\ [][NextViews]_vars

(***************************************************************************)
(* The chat of the form: App.tsx and part_004                              *)
(*                                                                         *)
(* chatHistory holds [role, text].  A send is two steps, up to the await   *)
(* of sendMessage() and from it on.  createAiChatSession() builds a client *)
(* of the AI service and throws when the service refuses, as it does       *)
(* without credentials.  last.err tells that the handler threw.            *)
(***************************************************************************)
\* typing into the chat field of the form
SetChatInput ==
    \E value \in {"hi", " "} :
        /\ app.view = "FORM"
        /\ app.chatInput # value
        /\ app' = [app EXCEPT !.chatInput = value]
        /\ UNCHANGED pending
        /\ UiStep("chatType")

UserEntry(text) == [role |-> "user", text |-> text]

ModelEntry(text) == [role |-> "model", text |-> text]

\* the message shown when the chat failed
Placeholder == ModelEntry("sorry")

\* handleChatSend() of App.tsx up to the await: Enter in the chat field, or
\* the send button.  The session is created inside try
HandleChatSend ==
    \E createThrows \in BOOLEAN :
        /\ app.view = "FORM"
        /\ Len(app.chatHistory) + 2 <= MaxChat
        /\ Len(pending) < MaxPending
        /\ IF IsBlank(app.chatInput)
              THEN UNCHANGED <<app, pending>>
              ELSE LET sent == [app EXCEPT
                                   !.chatHistory = Append(@, UserEntry(app.chatInput)),
                                   !.chatInput = "",
                                   !.isChatLoading = TRUE]
                   IN  IF ~app.chatSessionRef /\ createThrows
                          THEN /\ app' = [sent EXCEPT
                                             !.chatHistory = Append(@, Placeholder),
                                             !.isChatLoading = FALSE]
                               /\ UNCHANGED pending
                          ELSE /\ app' = [sent EXCEPT !.chatSessionRef = TRUE]
                               /\ pending' = Append(pending,
                                                    [kind |-> "chat", left |-> FALSE])
        /\ last' = Last("chatSend", FALSE, NoQuestion, app.chatInput, Absent, <<>>)
        /\ UNCHANGED <<ls, now, uuidCount, ui, mirror, tabs>>

\* handleChatSend() of part_004 up to the await: it returns while a send is
\* loading, and creates the session before try
HandleChatSend_part_004 ==
    \E createThrows \in BOOLEAN :
        LET returns == IsBlank(app.chatInput) \/ app.isChatLoading
            throws == ~returns /\ ~app.chatSessionRef /\ createThrows
        IN
        /\ app.view = "FORM"
        /\ Len(app.chatHistory) + 2 <= MaxChat
        /\ Len(pending) < MaxPending
        /\ IF returns \/ throws
              THEN UNCHANGED <<app, pending>>
              ELSE /\ app' = [app EXCEPT
                                 !.chatSessionRef = TRUE,
                                 !.chatHistory = Append(@, UserEntry(app.chatInput)),
                                 !.chatInput = "",
                                 !.isChatLoading = TRUE]
                   /\ pending' = Append(pending, [kind |-> "chat", left |-> FALSE])
        /\ last' = Last("chatSend", throws, NoQuestion, app.chatInput, Absent, <<>>)
        /\ UNCHANGED <<ls, now, uuidCount, ui, mirror, tabs>>

\* handleChatSend() from the await on, the same in both: sendMessage()
\* resolved or threw; an entry of the model is appended, finally clears
\* isChatLoading
ChatSettles ==
    \E i \in 1..Len(pending), failed \in BOOLEAN :
        /\ pending[i].kind = "chat"
        /\ app' = [app EXCEPT
                      !.chatHistory = Append(@, IF failed THEN Placeholder
                                                ELSE ModelEntry("reply")),
                      !.isChatLoading = FALSE]
        /\ pending' = Settled(pending, i)
        /\ last' = Last("chatReply", FALSE, NoQuestion, "", Absent, <<>>)
        /\ UNCHANGED <<ls, now, uuidCount, ui, mirror, tabs>>

\* the chat of the form: typed into and sent while replies arrive, the form
\* opened anew or left
NextChat ==
    \/ HandleCreateNew
    \/ BackToList
    \/ SetChatInput
    \/ HandleChatSend
    \/ HandleChatSend_part_004
    \/ ChatSettles

SpecChat == Init /\ [][NextChat]_vars

\* a call to the AI service settles: it resolves or it throws
SpecChatLive == SpecChat /\ WF_vars(ChatSettles)

(***************************************************************************)
(* storageService.ts: the mirror file                                      *)
(*                                                                         *)
(* With a directory picked, saveQuestion(), deleteQuestion() and           *)
(* importQuestions() write localStorage at once and then await             *)
(* syncToLocalFile(questions): five awaited calls of the File System       *)
(* Access API, the last of them close(), which puts the written text in    *)
(* place of the file.  Each call of syncToLocalFile() has a writable of    *)
(* its own; nothing orders the close() of one call against the close() of  *)
(* another.  A call in pending holds the questions it was given and what   *)
(* its caller does after the await (then).  mirror.failed records that a   *)
(* sync threw; the program only logs it.                                   *)
(***************************************************************************)
\* what the caller of a store operation does once the operation has resolved
Continue(then, store) ==
    LET g == getQuestions(store)
        refreshes == then \in {"refresh", "saved"}
    IN  /\ ls' = IF refreshes THEN g.ls ELSE store
        /\ ui' = IF refreshes THEN setQuestions(ui, g.ret.items, now) ELSE ui
        /\ app' = IF then = "saved" THEN [app EXCEPT !.view = "LIST"] ELSE app

\* a store operation that has computed r: setItem(), then syncToLocalFile()
\* of the collection written, which returns at once without a directory
StoreThenSync(op, r, q, id, payload, then) ==
    /\ ~r.err
    /\ last' = Last(op, FALSE, q, id, payload, <<>>)
    /\ IF mirror.directoryHandle
          THEN /\ Len(pending) < MaxPending
               /\ ls' = r.ls
               /\ pending' = Append(pending,
                                    [kind |-> "sync",
                                     questions |-> JSONparse(r.ls[STORAGE_KEY]).items,
                                     then |-> then])
               /\ UNCHANGED <<ui, app>>
          ELSE /\ Continue(then, r.ls)
               /\ pending' = IF then = "saved" THEN Left(pending) ELSE pending
    /\ UNCHANGED <<now, uuidCount, mirror, tabs>>

\* setSyncDirectory(): the picker resolved with a directory or was cancelled
SetSyncDirectory ==
    \E picked \in BOOLEAN :
        LET g == getQuestions(ls) IN
        /\ ~mirror.directoryHandle
        /\ Len(pending) < MaxPending
        /\ IF picked
              THEN /\ mirror' = [mirror EXCEPT !.directoryHandle = TRUE]
                   /\ ls' = g.ls
                   /\ pending' = Append(pending,
                                        [kind |-> "sync",
                                         questions |-> g.ret.items, then |-> "none"])
              ELSE UNCHANGED <<mirror, ls, pending>>
        /\ last' = Last("setSyncDirectory", ~picked, NoQuestion, "", Absent, <<>>)
        /\ UNCHANGED <<now, uuidCount, ui, app, tabs>>

\* the delete button of the list: deleteQuestion(q.id).then(refreshAll)
HandleDeleteSynced ==
    \E q \in Range(ui.questions) :
        /\ app.view = "LIST"
        /\ StoreThenSync("delete", deleteQuestion(ls, q.id), NoQuestion, q.id, Absent,
                         "refresh")

\* reader.onload of the import: await importQuestions(...); refreshAll()
HandleFileChangeSynced ==
    \E file \in TabFiles :
        /\ app.view = "LIST"
        /\ StoreThenSync("import", importQuestions(ls, JSONparse(file)), NoQuestion, "",
                         file, "refresh")

\* handleSave() on the form opened by handleEdit(): await saveQuestion(...);
\* refreshAll(); setView(LIST)
HandleSaveSynced ==
    LET newQuestion == Question(app.currentQuestion.id, app.formData.text,
                                app.formData.category,
                                app.currentQuestion.createdAt, now)
    IN  /\ app.view = "FORM"
        /\ app.currentQuestion # NoQuestion
        /\ app.formData.text # ""
        /\ StoreThenSync("save", saveQuestion(ls, newQuestion), newQuestion,
                         newQuestion.id, Absent, "saved")

\* a syncToLocalFile() comes to its end: close() put its text in place of the
\* file, or a call threw and the catch logged it; the caller goes on
SyncToLocalFileSettles ==
    \E i \in 1..Len(pending), failed \in BOOLEAN :
        /\ pending[i].kind = "sync"
        /\ mirror' = IF failed THEN [mirror EXCEPT !.failed = TRUE]
                     ELSE [mirror EXCEPT !.content = ArrayText(pending[i].questions)]
        /\ Continue(pending[i].then, ls)
        /\ pending' = IF pending[i].then = "saved" THEN Left(Settled(pending, i))
                      ELSE Settled(pending, i)
        /\ last' = Last("synced", failed, NoQuestion, "", Absent, <<>>)
        /\ UNCHANGED <<now, uuidCount, tabs>>

\* the application is open on a store of one question
InitSync ==
    /\ ls = [EmptyStorage EXCEPT ![STORAGE_KEY] =
                 ArrayText(<<Question("a", "Q2", "NLP", 1, 1)>>)]
    /\ InitRest

\* a directory is picked first; questions are then edited, deleted and
\* imported while the file writes go on, until a write fails
WithDirectory == mirror.directoryHandle /\ ~mirror.failed

DeleteWithDirectory == WithDirectory /\ HandleDeleteSynced

FileChangeWithDirectory == WithDirectory /\ HandleFileChangeSynced

EditWithDirectory == WithDirectory /\ HandleEdit

SetFormTextWithDirectory == WithDirectory /\ SetFormText

SaveWithDirectory == WithDirectory /\ HandleSaveSynced

SyncSettlesWithDirectory == WithDirectory /\ SyncToLocalFileSettles

NextSync ==
    \/ SetSyncDirectory
    \/ DeleteWithDirectory
    \/ FileChangeWithDirectory
    \/ EditWithDirectory
    \/ SetFormTextWithDirectory
    \/ SaveWithDirectory
    \/ SyncSettlesWithDirectory

SpecSync == InitSync /\ [][NextSync]_vars

(***************************************************************************)
(* Deletes and restarts: the page of App.tsx is loaded again and again,    *)
(* questions are added and deleted in between, nothing is imported by hand *)
(***************************************************************************)
NextRestart ==
    \/ AppInit
    \/ HandleSaveNew({"Q1"})
    \/ HandleDeleteShown

SpecRestart == Init /\ [][NextRestart]_vars

(***************************************************************************)
(* C1  The persisted question collection never holds two records with the  *)
(* same id, whatever handlers ran: save, delete, import, category rename   *)
(* and remove, and the first read that adopts a legacy key.                *)
(***************************************************************************)
C1_OneRecordPerId ==
    LET stored == ls[STORAGE_KEY] IN
    stored.kind = "array" =>
        \A i, j \in 1..Len(stored.val) :
            stored.val[i].id = stored.val[j].id => i = j

\* an import has merged into a store that began as adopted legacy data and
\* then took a new question
C1_Witness ==
    /\ last.op = "import" /\ ~last.err
    /\ ls[LEGACY_KEYS[2]].kind = "array"
    /\ uuidCount >= 1
    /\ Len(Stored(ls)) >= 2

\* the number of stored records with this id
CountId(items, id) == Cardinality({i \in 1..Len(items) : items[i].id = id})

\* the stored records with another id than this one
OthersOf(items, id) == {r \in Range(items) : r.id # id}

(***************************************************************************)
(* C2  Over any sequence of saves every id used has exactly one record,    *)
(* that record is the argument of the latest save of the id, and the       *)
(* updatedAt of an id never decreases from one save to the next.           *)
(***************************************************************************)
C2_SavesKeepLatest ==
    /\ [](\A i \in 1..uuidCount : CountId(Stored(ls), Uuids[i]) = 1)
    /\ [][last'.op = "save" =>
            LET q == last'.q
                before == Stored(ls)
                after == Stored(ls')
            IN  /\ ~last'.err
                /\ CountId(after, q.id) = 1
                /\ q \in Range(after)
                /\ OthersOf(after, q.id) = OthersOf(before, q.id)
                /\ \A r \in Range(before) : r.id = q.id => r.updatedAt <= q.updatedAt
         ]_vars

\* the question created at time 1 as Q1 was saved again later as Q2: one
\* record, holding the later save
C2_Witness ==
    /\ last.op = "save"
    /\ last.q = Question(Uuids[1], "Q2", "NLP", 1, MaxTime)
    /\ ls[LEGACY_KEYS[2]] = Absent
    /\ Stored(ls) = <<last.q>>

(***************************************************************************)
(* C3  save(question) with an id in the store replaces the record at its   *)
(* index and leaves the length and all other positions alone; with an id   *)
(* not in the store the new record comes first and the previous collection *)
(* follows in its order.                                                   *)
(***************************************************************************)
C3_SaveReplacesOrPrepends ==
    [][last'.op = "save" =>
        LET q == last'.q
            before == Stored(ls)
            after == Stored(ls')
        IN  IF \E i \in 1..Len(before) : before[i].id = q.id
               THEN /\ Len(after) = Len(before)
                    /\ \E i \in 1..Len(before) :
                           /\ before[i].id = q.id
                           /\ after[i] = q
                           /\ \A j \in 1..Len(before) : j # i => after[j] = before[j]
               ELSE after = <<q>> \o before
     ]_vars

\* an edit was saved into the second position of a store of two or more
C3_Witness ==
    /\ last.op = "save"
    /\ Len(Stored(ls)) >= 2
    /\ Stored(ls)[2] = last.q
    /\ last.q.text = "Q2"

(***************************************************************************)
(* C9  delete(id) leaves no record of that id, keeps every other record    *)
(* and their order, and with no record of that id changes nothing and      *)
(* raises no error.                                                        *)
(***************************************************************************)
C9_DeleteRemovesOnlyThatId ==
    [][last'.op = "delete" =>
        LET before == Stored(ls)
            after == Stored(ls')
        IN  /\ ~last'.err
            /\ \A i \in 1..Len(after) : after[i].id # last'.id
            /\ after = SelectSeq(before, LAMBDA q : q.id # last'.id)
            /\ (\A i \in 1..Len(before) : before[i].id # last'.id) => after = before
     ]_vars

\* the generated id is gone after a delete and another record is left
C9_Witness ==
    /\ last.op = "delete" /\ ~last.err
    /\ last.id = Uuids[1]
    /\ uuidCount >= 1
    /\ Len(Stored(ls)) >= 1

\* the positions of a batch that hold a record with both an id and a text
ValidIdx(batch) == {i \in 1..Len(batch) : batch[i].id # "" /\ batch[i].text # ""}

IdsOf(items) == {items[i].id : i \in 1..Len(items)}

SortedDesc(items) ==
    \A i, j \in 1..Len(items) : i < j => items[i].createdAt >= items[j].createdAt

\* after holds the records of before, ordered by createdAt descending, records
\* of equal createdAt in the order they had in before
ResortOf(after, before) ==
    /\ Len(after) = Len(before)
    /\ Range(after) = Range(before)
    /\ SortedDesc(after)
    /\ \A i, j \in 1..Len(before) :
           (i < j /\ before[i].createdAt = before[j].createdAt) =>
               \E k, l \in 1..Len(after) :
                   k < l /\ after[k] = before[i] /\ after[l] = before[j]

(***************************************************************************)
(* C4  importMerge of a sequence leaves exactly the ids of the previous    *)
(* store plus the ids of the incoming records that have an id and a text;  *)
(* each such id maps to the last such incoming record of that id; stored   *)
(* records of other ids are unchanged; records lacking id or text are      *)
(* skipped without error; the result is ordered by createdAt descending.   *)
(***************************************************************************)
C4_ImportMerges ==
    [][(last'.op = "import" /\ last'.payload.kind = "array") =>
        LET batch == last'.payload.val
            valid == ValidIdx(batch)
            before == Stored(ls)
            after == Stored(ls')
        IN  /\ ~last'.err
            /\ IdsOf(after) = IdsOf(before) \cup {batch[i].id : i \in valid}
            /\ \A id \in IdsOf(after) : CountId(after, id) = 1
            /\ \A i \in valid :
                   (\A j \in valid : j > i => batch[j].id # batch[i].id)
                       => batch[i] \in Range(after)
            /\ \A r \in Range(before) :
                   r.id \notin {batch[i].id : i \in valid} => r \in Range(after)
            /\ SortedDesc(after)
     ]_vars

\* a file of two records, one without an id and one that overwrote the
\* stored record of its id, merged into a store that also holds another id
C4_Witness ==
    /\ last.op = "import" /\ ~last.err
    /\ last.payload.kind = "array"
    /\ Len(last.payload.val) = 2
    /\ Cardinality(ValidIdx(last.payload.val)) = 1
    /\ last.payload.val[2] \in Range(Stored(ls))
    /\ last.payload.val[2].createdAt = MaxTime
    /\ Len(Stored(ls)) >= 2
    /\ ls[LEGACY_KEYS[2]].kind = "array"

(***************************************************************************)
(* C5  importMerge of a payload that is no sequence signals InvalidFormat  *)
(* and leaves the persisted collection, content and order, as it was.      *)
(***************************************************************************)
C5_NotASequenceRejected ==
    [][(last'.op = "import" /\ last'.payload.kind # "array") =>
        (last'.err /\ ls' = ls)
     ]_vars

\* a JSON object was offered to a store of two questions
C5_Witness ==
    /\ last.op = "import" /\ last.err
    /\ last.payload = ObjectText
    /\ Len(Stored(ls)) >= 2

(***************************************************************************)
(* C6  importMerge of [] or of records that all lack id or text leaves the *)
(* store unchanged, same records in the same order, also when the store is *)
(* not ordered by createdAt descending.                                    *)
(***************************************************************************)
C6_EmptyImportChangesNothing ==
    [][(last'.op = "import" /\ last'.payload.kind = "array"
            /\ ValidIdx(last'.payload.val) = {}) =>
        Stored(ls') = Stored(ls)
     ]_vars

\* C6 as amended: such an import keeps the records and re-sorts them by
\* createdAt descending (stable); a store already in that order is unchanged
C6_EmptyImportOnlyResorts ==
    [][(last'.op = "import" /\ last'.payload.kind = "array"
            /\ ValidIdx(last'.payload.val) = {}) =>
        /\ ~last'.err
        /\ ResortOf(Stored(ls'), Stored(ls))
        /\ SortedDesc(Stored(ls)) => Stored(ls') = Stored(ls)
     ]_vars

\* an import of records without id or text ran on a store of a new question
\* and an older-looking imported one
C6_Witness ==
    /\ last.op = "import" /\ ~last.err
    /\ last.payload.kind = "array"
    /\ Len(last.payload.val) >= 1
    /\ ValidIdx(last.payload.val) = {}
    /\ Len(Stored(ls)) >= 2
    /\ Stored(ls)[1].createdAt > Stored(ls)[2].createdAt
    /\ Stored(ls)[1].id = "a"
    /\ uuidCount >= 1

(***************************************************************************)
(* C7  importMerge is idempotent: merging the batch that was just merged   *)
(* once more gives the same collection, records and order.                 *)
(***************************************************************************)
C7_ImportIdempotent ==
    (last.op = "import" /\ ~last.err) =>
        LET again == importQuestions(ls, JSONparse(last.payload))
        IN  /\ ~again.err
            /\ Stored(again.ls) = Stored(ls)
            /\ again.ls = ls

\* a batch with a record to store was merged into a store where it ties on
\* createdAt with another record
C7_Witness ==
    /\ last.op = "import" /\ ~last.err
    /\ ValidIdx(last.payload.val) # {}
    /\ Len(Stored(ls)) >= 2
    /\ Stored(ls)[1].createdAt = Stored(ls)[2].createdAt

(***************************************************************************)
(* C8  Round trip: importing the export of a store into an empty store     *)
(* gives the same records with the same fields, in the order of the        *)
(* createdAt-descending re-sort of the original.                           *)
(***************************************************************************)
C8_ExportImportRoundTrip ==
    last.op = "export" =>
        LET imported == importQuestions(EmptyStorage, JSONparse(last.payload))
            original == Stored(ls)
            copy == Stored(imported.ls)
        IN  /\ ~JSONparseThrows(last.payload)
            /\ ~imported.err
            /\ ResortOf(copy, original)
            /\ SortedDesc(original) => copy = original

\* the export of a store that is not in createdAt-descending order
C8_Witness ==
    /\ last.op = "export"
    /\ Len(Stored(ls)) >= 2
    /\ ~SortedDesc(Stored(ls))

\* the legacy keys, by position, that hold a non-empty array
UsableLegacy(store) ==
    {i \in 1..Len(LEGACY_KEYS) :
        store[LEGACY_KEYS[i]].kind = "array" /\ store[LEGACY_KEYS[i]].val # <<>>}

(***************************************************************************)
(* C10  With the canonical key absent, getAll() returns the content of the *)
(* first legacy key, in the order interview_questions,                     *)
(* interview_prep_questions, interview_app_data, that holds a non-empty    *)
(* array, and the canonical key then holds those records; keys holding     *)
(* unparseable data, a non-array or an empty array are passed over, and    *)
(* with no usable key the result is empty.                                 *)
(***************************************************************************)
C10_LegacyAdoptedInOrder ==
    [][(last'.op = "getAll" /\ ls[STORAGE_KEY] = Absent) =>
        LET usable == UsableLegacy(ls) IN
        IF usable = {}
           THEN last'.ret = <<>> /\ ls' = ls
           ELSE LET k == CHOOSE i \in usable : \A j \in usable : i <= j
                    found == ls[LEGACY_KEYS[k]].val
                IN  /\ last'.ret = found
                    /\ ls' = [ls EXCEPT ![STORAGE_KEY] = ArrayText(found)]
     ]_vars

\* the first key held no JSON, the second an empty array, and the third key's
\* questions were returned and are now under the canonical key
C10_Witness ==
    /\ last.op = "getAll"
    /\ ls[LEGACY_KEYS[1]] = Garbage
    /\ ls[LEGACY_KEYS[2]] = ArrayText(<<>>)
    /\ ls[LEGACY_KEYS[3]].kind = "array"
    /\ Len(ls[LEGACY_KEYS[3]].val) = 2
    /\ last.ret = ls[LEGACY_KEYS[3]].val
    /\ ls[STORAGE_KEY] = ls[LEGACY_KEYS[3]]

(***************************************************************************)
(* C11  Once the canonical key has been written, by the migration or by    *)
(* any mutating operation, it stays written, the legacy keys are left as   *)
(* they are, and every later getAll() returns what the canonical key holds *)
(* and adopts nothing: after the last question is deleted the legacy       *)
(* records do not come back.                                               *)
(***************************************************************************)
C11_LegacyRecoveredOnce ==
    [][Truthy(ls[STORAGE_KEY]) =>
          /\ Truthy(ls'[STORAGE_KEY])
          /\ \A i \in 1..Len(LEGACY_KEYS) : ls'[LEGACY_KEYS[i]] = ls[LEGACY_KEYS[i]]
          /\ last'.op = "getAll" => (last'.ret = ls[STORAGE_KEY].val /\ ls' = ls)
     ]_vars

\* every question was deleted, the legacy key still holds its questions, and
\* the read that followed returned nothing
C11_Witness ==
    /\ last.op = "getAll"
    /\ last.ret = <<>>
    /\ ls[STORAGE_KEY] = ArrayText(<<>>)
    /\ UsableLegacy(ls) # {}

(***************************************************************************)
(* C12  getAll() fails soft: whenever the canonical key holds text that    *)
(* does not parse, or JSON that is not an array, getAll() returns the      *)
(* empty sequence and does not throw.                                      *)
(***************************************************************************)
C12_GetAllFailsSoft ==
    (last.op = "getAll" /\ ls[STORAGE_KEY].kind \in {"garbage", "object"}) =>
        /\ ~last.err
        /\ getQuestions(ls).ret = Arr(<<>>)

(***************************************************************************)
(* C13  Whatever category add, rename and remove operations ran, the       *)
(* category list contains the label "Other".                               *)
(***************************************************************************)
C13_OtherAlwaysListed == indexOf(getCategories(ls), "Other") >= 1

\* the questions the handler that ran last found in the store
StoredBefore == IF last.payload.kind = "array" THEN last.payload.val ELSE <<>>

(***************************************************************************)
(* C14  Removing the category "Other" is rejected: the category list and   *)
(* every question are afterwards what they were before.                    *)
(***************************************************************************)
C14_RemoveOtherRejected ==
    [][(last'.op = "removeCat" /\ last'.id = "Other") =>
          /\ getCategories(ls') = getCategories(ls)
          /\ Stored(ls') = Stored(ls)
          /\ ls'[STORAGE_KEY] = ls[STORAGE_KEY]
     ]_vars

\* "Other" was in the list with a question under it when its removal was asked
C14_Witness ==
    /\ last.op = "removeCat"
    /\ last.id = "Other"
    /\ indexOf(getCategories(ls), "Other") >= 1
    /\ \E i \in 1..Len(Stored(ls)) : Stored(ls)[i].category = "Other"
    /\ \E i \in 1..Len(Stored(ls)) : Stored(ls)[i].category # "Other"

(***************************************************************************)
(* C15  Removing a category other than "Other" takes the label out of the  *)
(* list and keeps the order of the remaining labels, sets the category of  *)
(* every question that had the label to "Other", and changes no other      *)
(* field of those questions and no other question.                         *)
(***************************************************************************)
C15_RemoveRetagsToOther ==
    [][(last'.op = "removeCat" /\ last'.id # "Other") =>
          LET name == last'.id
              before == Stored(ls)
              after == Stored(ls')
          IN  /\ getCategories(ls') = SelectSeq(getCategories(ls), LAMBDA c : c # name)
              /\ Len(after) = Len(before)
              /\ \A i \in 1..Len(before) :
                     /\ before[i].category = name =>
                            after[i] = [before[i] EXCEPT !.category = "Other"]
                     /\ before[i].category # name => after[i] = before[i]
     ]_vars

\* "NLP" was removed while one question was filed under it and another one
\* was not: the first is now under "Other", the second is as it was
C15_Witness ==
    /\ last.op = "removeCat"
    /\ last.id = "NLP"
    /\ getCategories(ls) = SelectSeq(DEFAULT_CATEGORIES, LAMBDA c : c # "NLP")
    /\ Len(StoredBefore) = 2
    /\ StoredBefore[1].category = "NLP"
    /\ StoredBefore[2].category = "Other"
    /\ Stored(ls) = <<[StoredBefore[1] EXCEPT !.category = "Other"], StoredBefore[2]>>

\* the step put new at the place of old in the list and filed the questions
\* of old, and only them, under new
RenamedTo(old, new) ==
    LET index == indexOf(getCategories(ls), old)
        before == Stored(ls)
        after == Stored(ls')
    IN  /\ getCategories(ls') = [getCategories(ls) EXCEPT ![index] = new]
        /\ Len(after) = Len(before)
        /\ \A i \in 1..Len(before) :
               /\ before[i].category = old =>
                      after[i] = [before[i] EXCEPT !.category = new]
               /\ before[i].category # old => after[i] = before[i]
        /\ \A i \in 1..Len(after) : after[i].category # old

(***************************************************************************)
(* C16  Renaming a listed category to a non-empty, different label puts    *)
(* the new label at the position of the old one, files every question of   *)
(* the old label under the new one, leaves no question under the old       *)
(* label, and changes nothing else of any question.                        *)
(***************************************************************************)
C16_RenameToNonEmptyRetags ==
    [][(/\ last'.op = "renameCat"
        /\ indexOf(getCategories(ls), last'.id) >= 1
        /\ last'.q.category # ""
        /\ last'.q.category # last'.id) =>
          RenamedTo(last'.id, last'.q.category)
     ]_vars

(***************************************************************************)
(* C16, amended: the same for a new label that holds more than white       *)
(* space; a label of nothing but white space is taken for empty and the    *)
(* rename does nothing.                                                    *)
(***************************************************************************)
C16_RenameRetags ==
    [][(/\ last'.op = "renameCat"
        /\ indexOf(getCategories(ls), last'.id) >= 1
        /\ last'.q.category # last'.id) =>
          IF IsBlank(last'.q.category)
             THEN getCategories(ls') = getCategories(ls) /\ Stored(ls') = Stored(ls)
             ELSE RenamedTo(last'.id, last'.q.category)
     ]_vars

\* "NLP" was renamed to "Algos" in the untouched list while one question was
\* filed under it and another one was not
C16_Witness ==
    /\ last.op = "renameCat"
    /\ last.id = "NLP"
    /\ last.q.category = "Algos"
    /\ getCategories(ls) = [DEFAULT_CATEGORIES EXCEPT ![5] = "Algos"]
    /\ Len(StoredBefore) = 2
    /\ StoredBefore[1].category = "NLP"
    /\ StoredBefore[2].category = "Other"
    /\ Stored(ls) = <<[StoredBefore[1] EXCEPT !.category = "Algos"], StoredBefore[2]>>

(***************************************************************************)
(* C17  Renaming a category changes neither the category list nor any      *)
(* question when the old label is not in the list, when the new label is   *)
(* empty, or when the new label equals the old one.                        *)
(***************************************************************************)
C17_RenameNoOp ==
    [][(/\ last'.op = "renameCat"
        /\ \/ indexOf(getCategories(ls), last'.id) = 0
           \/ last'.q.category = ""
           \/ last'.q.category = last'.id) =>
          /\ getCategories(ls') = getCategories(ls)
          /\ ls'[CATEGORIES_KEY] = ls[CATEGORIES_KEY]
          /\ Stored(ls') = Stored(ls)
     ]_vars

\* a rename of a label that is not in the list was asked while questions
\* were stored, one of them under a listed label
C17_Witness ==
    /\ last.op = "renameCat"
    /\ last.id = "Ghost"
    /\ last.q.category = "Algos"
    /\ indexOf(getCategories(ls), "Ghost") = 0
    /\ Len(Stored(ls)) = 2
    /\ Stored(ls) = StoredBefore

(***************************************************************************)
(* C18  At startup the seed records are merged into the store only if the  *)
(* store is empty at that moment: a startup that finds at least one record *)
(* leaves the persisted collection as it was.                              *)
(***************************************************************************)
C18_SeedOnlyIntoEmptyStore ==
    [][(last'.op = "startup" /\ Stored(ls) # <<>>) => Stored(ls') = Stored(ls)]_vars

\* two characters that are the same letter in upper or lower case
SameIgnoringCase(c, d) == c = d \/ {c, d} \in {{"Q", "q"}, {"M", "m"}, {"E", "e"}}

\* the text of a question, or its company tag when it has one, contains
\* searchText, upper and lower case taken for the same
ContainsText(q, searchText) ==
    LET needle == Spelling(searchText)
        found(chars) ==
            \E from \in 0..(Len(chars) - Len(needle)) :
                \A k \in 1..Len(needle) : SameIgnoringCase(chars[from + k], needle[k])
    IN  \/ found(Spelling(q.text))
        \/ "companyTag" \in DOMAIN q /\ q.companyTag # "" /\ found(Spelling(q.companyTag))

\* result holds the records of input that pass, in the order of input
IsSelection(result, input, Pass(_)) ==
    LET idx == {i \in 1..Len(input) : Pass(input[i])}
        nth(k) == CHOOSE i \in idx : Cardinality({j \in idx : j <= i}) = k
    IN  /\ Len(result) = Cardinality(idx)
        /\ \A k \in 1..Len(result) : result[k] = input[nth(k)]

(***************************************************************************)
(* C19  With no date filter, the list shown holds exactly the questions    *)
(* whose category is the selected one (all of them for "All") and whose    *)
(* text or company tag contains the search text, case ignored; an empty    *)
(* search passes every question and a missing company tag never matches;   *)
(* the order is that of the questions, not sorted again.                   *)
(***************************************************************************)
C19_FilterSelectsInOrder ==
    ui.dateFilter = "all" =>
        LET Pass(q) ==
                /\ ui.selectedCategory = "All" \/ q.category = ui.selectedCategory
                /\ ui.searchQuery = "" \/ ContainsText(q, ui.searchQuery)
        IN  IsSelection(ui.filteredQuestions, ui.questions, Pass)

\* the claim's example: of [a under NLP, b under Other] category NLP with an
\* empty search and no date filter shows exactly [a]
C19_Witness ==
    /\ Len(ui.questions) = 2
    /\ ui.questions[1].id = "a" /\ ui.questions[1].category = "NLP"
    /\ ui.questions[2].id = "b" /\ ui.questions[2].category = "Other"
    /\ ui.selectedCategory = "NLP"
    /\ ui.searchQuery = ""
    /\ ui.dateFilter = "all"
    /\ ui.filteredQuestions = <<ui.questions[1]>>

\* days of the period a date filter stands for
PeriodDays(dateFilter) ==
    CASE dateFilter = "today" -> 1
      [] dateFilter = "week" -> 7
      [] dateFilter = "month" -> 30
      [] dateFilter = "year" -> 365

(***************************************************************************)
(* C20  With a period selected, the list shown is at every moment the list *)
(* of the questions (passing the category and the search) that were        *)
(* updated less than the period before the current time: a question whose  *)
(* age passes the period leaves the list though nothing else changed.      *)
(***************************************************************************)
C20_DateFilterFollowsClock ==
    ui.dateFilter # "all" =>
        LET Pass(q) ==
                /\ ui.selectedCategory = "All" \/ q.category = ui.selectedCategory
                /\ ui.searchQuery = "" \/ ContainsText(q, ui.searchQuery)
                /\ now - q.updatedAt < PeriodDays(ui.dateFilter) * oneDay
        IN  IsSelection(ui.filteredQuestions, ui.questions, Pass)

(***************************************************************************)
(* C21  createdAt is set once: over form saves, imports and the cascades   *)
(* of category rename and remove, the stored record of an id keeps its     *)
(* createdAt for as long as the id is stored, and every form save stores   *)
(* the record with updatedAt the time of that save.                        *)
(***************************************************************************)
C21_CreatedAtSetOnce ==
    [][/\ \A r \in Range(Stored(ls)), s \in Range(Stored(ls')) :
              r.id = s.id => r.createdAt = s.createdAt
       /\ (last'.op = "save" /\ ~last'.err) =>
              /\ last'.q.updatedAt = now'
              /\ last'.q \in Range(Stored(ls'))
     ]_vars

\* the stored records with an id outside ids
OthersIn(items, ids) == {r \in Range(items) : r.id \notin ids}

\* the ids an operation names: the id saved, the id deleted, the ids of the
\* records of the file that have an id and a text
NamedIds(l) ==
    IF l.op = "save" THEN {l.q.id}
    ELSE IF l.op = "delete" THEN {l.id}
    ELSE IF l.op = "import" /\ l.payload.kind = "array"
            THEN {l.payload.val[i].id : i \in ValidIdx(l.payload.val)}
    ELSE {}

(***************************************************************************)
(* C22  Two sessions on one store: a save, delete or import issued in one  *)
(* session changes only the records of the ids it names.  A record of      *)
(* another id, also one the other session wrote after this session last    *)
(* refreshed, is neither removed nor put back to an earlier value.         *)
(***************************************************************************)
C22_LastWriterWinsPerId ==
    [][last'.op \in {"save", "delete", "import"} =>
          OthersIn(Stored(ls'), NamedIds(last')) = OthersIn(Stored(ls), NamedIds(last'))
     ]_vars

(***************************************************************************)
(* C23  An answer that arrives after the user has left the form it was     *)
(* asked from (back to the list, or the form opened for a new or another   *)
(* question) is not applied: the answer, category, sources and             *)
(* isAiGenerated of the form now edited are what they were.  The form is   *)
(* the only way of an answer into the store, so an answer that is not      *)
(* applied does not reach the store under another question either.         *)
(***************************************************************************)
C23_LateAnswerNotApplied ==
    [][(last'.op = "generated" /\ last'.id = "left" /\ app.view = "FORM") =>
          app'.formData = app.formData
     ]_vars

(***************************************************************************)
(* C24  Whenever a handler that changes the store has completed (save,     *)
(* delete from the list, delete from the detail view, import), the         *)
(* questions held in memory are the questions stored, so the list never    *)
(* shows a question that was deleted.  (The model keeps the questions of   *)
(* the snapshot, not its category labels.)                                 *)
(***************************************************************************)
C24_SnapshotFollowsStore ==
    (last.op \in {"save", "delete", "import"} /\ ~last.err) =>
        /\ ui.questions = Stored(ls)
        /\ last.op = "delete" => \A q \in Range(ui.filteredQuestions) : q.id # last.id

(***************************************************************************)
(* C25  Every chat send completes: the user's entry is appended, then      *)
(* exactly one entry of the model (the reply, or the placeholder when the  *)
(* service failed), and the loading flag is cleared with it; a failure of  *)
(* the chat service does not leave the handler as an exception and does    *)
(* not leave the loading flag set.                                         *)
(***************************************************************************)
C25_ChatSendCompletes ==
    /\ [](last.op = "chatSend" => ~last.err)
    /\ [][(last'.op = "chatSend" /\ ~IsBlank(last'.id) /\ ~app.isChatLoading) =>
             LET asked == Append(app.chatHistory, UserEntry(last'.id)) IN
             \/ app'.chatHistory = asked /\ app'.isChatLoading /\ Len(pending') = Len(pending) + 1
             \/ app'.chatHistory = Append(asked, Placeholder) /\ ~app'.isChatLoading
         ]_vars
    /\ [][last'.op = "chatReply" =>
             /\ \E text \in {"reply", "sorry"} :
                    app'.chatHistory = Append(app.chatHistory, ModelEntry(text))
             /\ ~app'.isChatLoading
             /\ Len(pending') = Len(pending) - 1
         ]_vars
    /\ (app.isChatLoading ~> ~app.isChatLoading)

(***************************************************************************)
(* C26  Submitting the form of a new question creates at most one record:  *)
(* when Save was triggered again while the first Save awaited              *)
(* autoCategorize(), the Save that completes second inserts no record      *)
(* under another generated id.                                             *)
(***************************************************************************)
C26_OneRecordPerSubmit ==
    [][\A i \in 1..Len(pending) :
           (/\ pending[i].kind = "categorize"
            /\ pending[i].again
            /\ last'.op = "save"
            /\ pending' = Left(Resubmitted(Settled(pending, i)))) =>
               IdsOf(Stored(ls')) = IdsOf(Stored(ls))
     ]_vars

(***************************************************************************)
(* C27  At most one chat request is in flight: a send triggered while a    *)
(* previous send of the open form awaits its reply is ignored, and the     *)
(* chat history alternates user entry, model entry.                        *)
(***************************************************************************)
ChatInFlight == {i \in 1..Len(pending) : pending[i].kind = "chat" /\ ~pending[i].left}

Alternates(history) ==
    \A i \in 1..Len(history) :
        history[i].role = (IF i % 2 = 1 THEN "user" ELSE "model")

C27_OneChatInFlight ==
    /\ [](Cardinality(ChatInFlight) <= 1)
    /\ [][(last'.op = "chatSend" /\ app.isChatLoading) =>
              (app' = app /\ pending' = pending)]_vars
    /\ []Alternates(app.chatHistory)

(***************************************************************************)
(* C28  With a directory picked and no sync having failed, once every      *)
(* syncToLocalFile() issued has come to its end the mirror file holds the  *)
(* collection of the canonical store.                                      *)
(***************************************************************************)
SyncsPending == {i \in 1..Len(pending) : pending[i].kind = "sync"}

C28_MirrorEqualsStore ==
    (mirror.directoryHandle /\ ~mirror.failed /\ SyncsPending = {}) =>
        mirror.content = ArrayText(Stored(ls))

(***************************************************************************)
(* C29  With the startup that imports the seed only into an empty store, a *)
(* question the user has deleted is never put back by a later startup,     *)
(* also when every question was deleted.  Stated for the question deleted  *)
(* last: the startup that follows its delete leaves its id absent.         *)
(***************************************************************************)
C29_DeletedStaysDeleted ==
    [][(last.op = "delete" /\ ~last.err /\ last'.op = "startup") =>
           last.id \notin IdsOf(Stored(ls'))]_vars

(***************************************************************************)
(* C30  After any sequence of handleAddCategory, handleRenameCat and       *)
(* handleRemoveCat the category list holds no label twice, also after a    *)
(* category was renamed to a label the list already holds.                 *)
(***************************************************************************)
C30_NoLabelTwice ==
    LET categories == getCategories(ls) IN
    \A i, j \in 1..Len(categories) : categories[i] = categories[j] => i = j
====
